---- MODULE Spec2Model ----
(***************************************************************************)
(* State-machine model of the onusone_p2p on-chain program                 *)
(* (contracts/programs/onusone-p2p/src/lib.rs).                            *)
(*                                                                         *)
(* The program owns two kinds of accounts, both program-derived addresses: *)
(*   - the singleton ProgramState at seeds ["program_state"];              *)
(*   - one StakeAccount per address derived from seeds ["stake", user].    *)
(* It exposes two instructions, initialize and stake_tokens.  An           *)
(* instruction either commits all of its account writes or, when an        *)
(* account constraint or the final serialization fails, none of them.      *)
(* Strings are sequences of bytes, so their serialized length is computed. *)
(***************************************************************************)
EXTENDS Integers, Sequences, FiniteSets

\* ---------------------------------------------------------------- bounds
MaxClock == 1

\* ------------------------------------------------------ program constants
DISCRIMINATOR_LEN == 8
PUBKEY_LEN == 32
STRING_PREFIX_LEN == 4
CONTENT_ID_MAX == 200
CONTENT_TYPE_MAX == 50

\* StakeAccount::INIT_SPACE = 32 + 200 + 50 + 8 + 8 + 1 + 1
StakeAccount_INIT_SPACE == 32 + 200 + 50 + 8 + 8 + 1 + 1

\* space = 8 + StakeAccount::INIT_SPACE
StakeAccountSpace == 8 + StakeAccount_INIT_SPACE

\* ------------------------------------------------------------ input sets
Str(ch, n) == [i \in 1..n |-> ch]

\* A user name stands for the 32-byte key sha256(name).
Users == {"alice", "carol"}
Mints == {"mint1"}
Treasuries == {"treasury1"}
Amounts == {5, 10}
Supplies == {7}
DecayRates == {100}
MinStakes == {0, 10}
MaxStakes == {1000}
DailyLimits == {50}
TotalLimits == {500}
ContentIds == {Str(97, 1), Str(99, CONTENT_ID_MAX)}
ContentTypes == {Str(112, 4), Str(118, CONTENT_TYPE_MAX)}

\* -------------------------------------------------- addresses and layout
\* seeds = [b"program_state"]
ProgramStatePda == <<"program_state">>

\* Variant of StakePda that leaves the user key out of the seeds.
StakePdaShared(user, content_id) == <<"stake">>

\* seeds = [b"stake", user.key().as_ref()]: the content id is not a seed
StakePda(user, content_id) == <<"stake", user>>

\* Canonical bump of ["stake", key] under the declared program id, for the
\* keys sha256(name): the first bump from 255 down for which
\* sha256(seeds || bump || program_id || "ProgramDerivedAddress") is off the
\* ed25519 curve.
StakeBumps ==
    [name \in {"alice", "bob", "carol", "dave", "erin", "frank", "grace",
               "heidi"} |->
        CASE name = "alice" -> 254
          [] name = "bob" -> 254
          [] name = "carol" -> 255
          [] name = "dave" -> 251
          [] name = "erin" -> 254
          [] name = "frank" -> 249
          [] name = "grace" -> 255
          [] name = "heidi" -> 255]

\* ctx.bumps.*: the canonical bump of the derived address under program id
\* Fg6PaFpoGXkYsidMpWTK6W2BeZ7FEfcYkg476zPFsLnS, one byte: 251 for
\* ["program_state"], 254 for ["stake"], key-dependent for ["stake", key].
CanonicalBump(seeds) ==
    IF seeds = <<"program_state">> THEN 251
    ELSE IF seeds = <<"stake">> THEN 254
    ELSE StakeBumps[seeds[2]]

\* Borsh length of a String: u32 length prefix followed by the bytes
StringSerializedLen(s) == STRING_PREFIX_LEN + Len(s)

\* Length of the account data written for a StakeAccount: discriminator,
\* user, content_id, content_type, amount, staked_at, is_active, bump
StakeSerializedLen(content_id, content_type) ==
    DISCRIMINATOR_LEN + PUBKEY_LEN + StringSerializedLen(content_id)
        + StringSerializedLen(content_type) + 8 + 8 + 1 + 1

\* program_state, stake_accounts: the accounts that exist, by address.
\* clock: the runtime's unix timestamp.  lastCall: the most recent
\* instruction, its arguments and its result.  lastStake: for each user,
\* the arguments of that user's most recent successful stake_tokens.
VARIABLES program_state, stake_accounts, clock, lastCall, lastStake

vars == <<program_state, stake_accounts, clock, lastCall, lastStake>>

Initialized == ProgramStatePda \in DOMAIN program_state
PS == program_state[ProgramStatePda]

NoCall == [op |-> "none"]

Init ==
    /\ program_state = <<>>
    /\ stake_accounts = <<>>
    /\ clock = 0
    /\ lastCall = NoCall
    /\ lastStake = <<>>

\* ------------------------------------------------------------ initialize
\* Variant of InitializeResult with init_if_needed in place of init.
InitializeResultIfNeeded(ps) == "Ok"

\* #[account(init, seeds = [b"program_state"], bump)]: the account must not
\* exist yet, otherwise its creation fails.
InitializeResult(ps) ==
    IF ProgramStatePda \in DOMAIN ps THEN "AccountAlreadyInUse" ELSE "Ok"

\* Variant of InitializedState that seeds total_staked from the supply.
InitializedStateSupply(authority, onu_mint, treasury, initial_supply, decay_rate, min_stake, max_stake, daily_user_limit, total_user_limit) ==
    [authority |-> authority,
     onu_mint |-> onu_mint,
     treasury |-> treasury,
     decay_rate |-> decay_rate,
     min_stake |-> min_stake,
     max_stake |-> max_stake,
     daily_user_limit |-> daily_user_limit,
     total_user_limit |-> total_user_limit,
     total_staked |-> initial_supply,
     total_rewards_paid |-> 0,
     emergency_controls_active |-> FALSE,
     bump |-> CanonicalBump(ProgramStatePda)]

\* The record written by the body of initialize.
InitializedState(authority, onu_mint, treasury, initial_supply, decay_rate, min_stake, max_stake, daily_user_limit, total_user_limit) ==
    [authority |-> authority,
     onu_mint |-> onu_mint,
     treasury |-> treasury,
     decay_rate |-> decay_rate,
     min_stake |-> min_stake,
     max_stake |-> max_stake,
     daily_user_limit |-> daily_user_limit,
     total_user_limit |-> total_user_limit,
     total_staked |-> 0,
     total_rewards_paid |-> 0,
     emergency_controls_active |-> FALSE,
     bump |-> CanonicalBump(ProgramStatePda)]

initialize(authority, onu_mint, treasury, initial_supply, decay_rate, min_stake, max_stake, daily_user_limit, total_user_limit) ==
    LET result == InitializeResult(program_state) IN
    /\ lastCall' = [op |-> "initialize", result |-> result,
                    authority |-> authority, initial_supply |-> initial_supply,
                    decay_rate |-> decay_rate, min_stake |-> min_stake,
                    max_stake |-> max_stake,
                    daily_user_limit |-> daily_user_limit,
                    total_user_limit |-> total_user_limit]
    /\ IF result = "Ok"
       THEN program_state' =
                [k \in {ProgramStatePda} |->
                    InitializedState(authority, onu_mint, treasury,
                                     initial_supply, decay_rate, min_stake,
                                     max_stake, daily_user_limit,
                                     total_user_limit)]
       ELSE program_state' = program_state
    /\ UNCHANGED <<stake_accounts, clock, lastStake>>

\* ---------------------------------------------------------- stake_tokens
\* Variant of StakedAccount that tops up the stored amount.
StakedAccountSummed(old, user, amount, content_id, content_type, now, bump) ==
    [user |-> user,
     content_id |-> content_id,
     content_type |-> content_type,
     amount |-> old.amount + amount,
     staked_at |-> now,
     is_active |-> TRUE,
     bump |-> bump]

\* The record written by the body of stake_tokens; old is the account as
\* loaded (zeroed when init_if_needed has just created it).
StakedAccount(old, user, amount, content_id, content_type, now, bump) ==
    [user |-> user,
     content_id |-> content_id,
     content_type |-> content_type,
     amount |-> amount,
     staked_at |-> now,
     is_active |-> TRUE,
     bump |-> bump]

ZeroedStakeAccount ==
    [user |-> "", content_id |-> <<>>, content_type |-> <<>>, amount |-> 0,
     staked_at |-> 0, is_active |-> FALSE, bump |-> 0]

\* Variant of StakeTokensResult that requires the policy account.
StakeTokensResultNeedsPolicy(ps, content_id, content_type) ==
    IF ProgramStatePda \notin DOMAIN ps
    THEN "AccountNotInitialized"
    ELSE IF StakeSerializedLen(content_id, content_type) > StakeAccountSpace
         THEN "AccountDidNotSerialize"
         ELSE "Ok"

\* The StakeTokens accounts hold only stake_account, user and system_program:
\* the instruction neither reads nor requires program_state.  The only
\* failure is at exit, when the record does not fit the allocated space.
StakeTokensResult(ps, content_id, content_type) ==
    IF StakeSerializedLen(content_id, content_type) > StakeAccountSpace
    THEN "AccountDidNotSerialize"
    ELSE "Ok"

stake_tokens(user, amount, content_id, content_type) ==
    LET result == StakeTokensResult(program_state, content_id, content_type)
        pda == StakePda(user, content_id)
        old == IF pda \in DOMAIN stake_accounts
               THEN stake_accounts[pda] ELSE ZeroedStakeAccount
        new == StakedAccount(old, user, amount, content_id, content_type,
                             clock, CanonicalBump(pda))
    IN
    /\ lastCall' = [op |-> "stake_tokens", result |-> result, user |-> user,
                    amount |-> amount, content_id |-> content_id,
                    content_type |-> content_type, now |-> clock,
                    overwrote |-> (pda \in DOMAIN stake_accounts
                                      /\ old.amount # amount)]
    /\ IF result = "Ok"
       THEN /\ stake_accounts' =
                   [k \in DOMAIN stake_accounts \cup {pda} |->
                       IF k = pda THEN new ELSE stake_accounts[k]]
            /\ lastStake' =
                   [u \in DOMAIN lastStake \cup {user} |->
                       IF u = user
                       THEN [amount |-> amount, content_id |-> content_id,
                             content_type |-> content_type, now |-> clock]
                       ELSE lastStake[u]]
       ELSE UNCHANGED <<stake_accounts, lastStake>>
    /\ UNCHANGED <<program_state, clock>>

\* ----------------------------------------------------------------- clock
\* Clock::get()?.unix_timestamp is supplied by the runtime and advances
\* between instructions.
AdvanceClock ==
    /\ clock < MaxClock
    /\ clock' = clock + 1
    /\ UNCHANGED <<program_state, stake_accounts, lastCall, lastStake>>

DoInitialize ==
    \E authority \in Users, onu_mint \in Mints, treasury \in Treasuries,
       initial_supply \in Supplies, decay_rate \in DecayRates,
       min_stake \in MinStakes, max_stake \in MaxStakes,
       daily_user_limit \in DailyLimits, total_user_limit \in TotalLimits :
        initialize(authority, onu_mint, treasury, initial_supply, decay_rate,
                   min_stake, max_stake, daily_user_limit, total_user_limit)

DoStakeTokens ==
    \E user \in Users, amount \in Amounts, content_id \in ContentIds,
       content_type \in ContentTypes :
        stake_tokens(user, amount, content_id, content_type)

Next == DoInitialize \/ DoStakeTokens \/ AdvanceClock

Spec == Init /\ [][Next]_vars

\* --------------------------------------------------------- set_emergency
\* The program has no instruction that writes emergency_controls_active
\* after initialize.  The specification's PolicyStore describes one,
\* set_emergency(caller, active), gated on caller = authority; it is
\* modelled here so that states with the flag raised can be examined.
set_emergency(caller, active) ==
    LET result == IF ~Initialized THEN "AccountNotInitialized"
                  ELSE IF caller # PS.authority THEN "Unauthorized"
                  ELSE "Ok"
    IN
    /\ lastCall' = [op |-> "set_emergency", result |-> result,
                    caller |-> caller, active |-> active]
    /\ IF result = "Ok"
       THEN program_state' =
                [program_state EXCEPT
                    ![ProgramStatePda].emergency_controls_active = active]
       ELSE program_state' = program_state
    /\ UNCHANGED <<stake_accounts, clock, lastStake>>

DoSetEmergency ==
    \E caller \in Users, active \in BOOLEAN : set_emergency(caller, active)

NextEmergency == Next \/ DoSetEmergency

SpecEmergency == Init /\ [][NextEmergency]_vars

\* ============================================================== claims
RECURSIVE SumAmounts(_, _)
SumAmounts(accts, keys) ==
    IF keys = {} THEN 0
    ELSE LET k == CHOOSE x \in keys : TRUE
         IN (IF accts[k].is_active THEN accts[k].amount ELSE 0)
                + SumAmounts(accts, keys \ {k})

ActiveSum == SumAmounts(stake_accounts, DOMAIN stake_accounts)

\* C1: whenever ProgramState exists, total_staked equals the sum of amount
\* over the stake records whose is_active is true.
C1_TotalStakedIsActiveSum ==
    Initialized => PS.total_staked = ActiveSum

\* C2: once program_state exists, every initialize call fails and leaves
\* ProgramState and every stake record as they were.
C2_InitializeOnce ==
    [][\A authority \in Users, onu_mint \in Mints, treasury \in Treasuries,
         initial_supply \in Supplies, decay_rate \in DecayRates,
         min_stake \in MinStakes, max_stake \in MaxStakes,
         daily_user_limit \in DailyLimits, total_user_limit \in TotalLimits :
          (Initialized
             /\ initialize(authority, onu_mint, treasury, initial_supply,
                           decay_rate, min_stake, max_stake, daily_user_limit,
                           total_user_limit))
          => /\ lastCall'.result # "Ok"
             /\ program_state' = program_state
             /\ stake_accounts' = stake_accounts]_vars

C2_Witness ==
    /\ lastCall.op = "initialize"
    /\ lastCall.result # "Ok"
    /\ Initialized
    /\ DOMAIN stake_accounts # {}

\* C3: with an initialised policy, a stake_tokens call with
\* amount < min_stake is rejected with BelowMinimum and writes nothing.
C3_BelowMinimumRejected ==
    [][\A user \in Users, amount \in Amounts, content_id \in ContentIds,
         content_type \in ContentTypes :
          (Initialized /\ amount < PS.min_stake
             /\ stake_tokens(user, amount, content_id, content_type))
          => /\ lastCall'.result = "BelowMinimum"
             /\ stake_accounts' = stake_accounts]_vars

\* C4: while emergency_controls_active is true, every stake_tokens call
\* fails with EmergencyHalt and creates or changes no stake record.
C4_EmergencyHaltRejects ==
    [][\A user \in Users, amount \in Amounts, content_id \in ContentIds,
         content_type \in ContentTypes :
          (Initialized /\ PS.emergency_controls_active
             /\ stake_tokens(user, amount, content_id, content_type))
          => /\ lastCall'.result = "EmergencyHalt"
             /\ stake_accounts' = stake_accounts]_vars

\* C5: records are keyed by (user, content_id): when a user who holds a
\* record for c1 stakes on a different c2, the record for (user, c1) is
\* still there unchanged, next to a separate record for (user, c2).
C5_KeyedByUserAndContent ==
    [][\A user \in Users, amount \in Amounts, c2 \in ContentIds,
         content_type \in ContentTypes :
          (stake_tokens(user, amount, c2, content_type)
             /\ lastCall'.result = "Ok")
          => \A k \in DOMAIN stake_accounts :
                (stake_accounts[k].user = user
                   /\ stake_accounts[k].content_id # c2)
                => /\ k \in DOMAIN stake_accounts'
                   /\ stake_accounts'[k] = stake_accounts[k]
                   /\ \E k2 \in DOMAIN stake_accounts' \ {k} :
                         /\ stake_accounts'[k2].user = user
                         /\ stake_accounts'[k2].content_id = c2]_vars

\* C6: right after a successful initialize, total_staked = 0,
\* total_rewards_paid = 0, emergency_controls_active = FALSE, the five
\* policy parameters equal the arguments and authority equals the signer.
C6_InitializePostcondition ==
    [][\A authority \in Users, onu_mint \in Mints, treasury \in Treasuries,
         initial_supply \in Supplies, decay_rate \in DecayRates,
         min_stake \in MinStakes, max_stake \in MaxStakes,
         daily_user_limit \in DailyLimits, total_user_limit \in TotalLimits :
          (initialize(authority, onu_mint, treasury, initial_supply,
                      decay_rate, min_stake, max_stake, daily_user_limit,
                      total_user_limit)
             /\ lastCall'.result = "Ok")
          => /\ ProgramStatePda \in DOMAIN program_state'
             /\ program_state'[ProgramStatePda].total_staked = 0
             /\ program_state'[ProgramStatePda].total_rewards_paid = 0
             /\ program_state'[ProgramStatePda].emergency_controls_active
                    = FALSE
             /\ program_state'[ProgramStatePda].decay_rate = decay_rate
             /\ program_state'[ProgramStatePda].min_stake = min_stake
             /\ program_state'[ProgramStatePda].max_stake = max_stake
             /\ program_state'[ProgramStatePda].daily_user_limit
                    = daily_user_limit
             /\ program_state'[ProgramStatePda].total_user_limit
                    = total_user_limit
             /\ program_state'[ProgramStatePda].authority = authority]_vars

C6_Witness ==
    /\ lastCall.op = "initialize"
    /\ lastCall.result = "Ok"
    /\ Initialized
    /\ PS.min_stake = lastCall.min_stake
    /\ PS.min_stake > 0

\* C7: after any sequence of successful stake_tokens calls by a user, the
\* user's record holds exactly the amount, content_id and content_type of
\* that user's most recent call, staked_at is the clock at that call, and
\* is_active is true.
C7_RestakeOverwrites ==
    \A u \in DOMAIN lastStake :
        LET pda == StakePda(u, lastStake[u].content_id) IN
        /\ pda \in DOMAIN stake_accounts
        /\ stake_accounts[pda].user = u
        /\ stake_accounts[pda].amount = lastStake[u].amount
        /\ stake_accounts[pda].content_id = lastStake[u].content_id
        /\ stake_accounts[pda].content_type = lastStake[u].content_type
        /\ stake_accounts[pda].staked_at = lastStake[u].now
        /\ stake_accounts[pda].is_active

C7_Witness ==
    /\ lastCall.op = "stake_tokens"
    /\ lastCall.result = "Ok"
    /\ lastCall.overwrote
    /\ lastCall.now > 0
    /\ lastStake[lastCall.user].amount = lastCall.amount
    /\ stake_accounts[StakePda(lastCall.user, lastCall.content_id)].amount
          = lastCall.amount

\* C8: for content_id of at most 200 bytes and content_type of at most 50
\* bytes the serialized stake record fits 8 + StakeAccount::INIT_SPACE, so
\* stake_tokens does not fail for lack of space.
C8_InBoundStringsFit ==
    (lastCall.op = "stake_tokens"
       /\ Len(lastCall.content_id) <= CONTENT_ID_MAX
       /\ Len(lastCall.content_type) <= CONTENT_TYPE_MAX)
    => /\ StakeSerializedLen(lastCall.content_id, lastCall.content_type)
             <= StakeAccountSpace
       /\ lastCall.result = "Ok"

\* C9: stake_tokens leaves every ProgramState field and every other
\* user's stake record unchanged.
C9_StakeFrame ==
    [][\A user \in Users, amount \in Amounts, content_id \in ContentIds,
         content_type \in ContentTypes :
          stake_tokens(user, amount, content_id, content_type)
          => /\ program_state' = program_state
             /\ \A k \in DOMAIN stake_accounts :
                   stake_accounts[k].user # user
                   => /\ k \in DOMAIN stake_accounts'
                      /\ stake_accounts'[k] = stake_accounts[k]]_vars

C9_Witness ==
    /\ lastCall.op = "stake_tokens"
    /\ lastCall.result = "Ok"
    /\ Initialized
    /\ \E k \in DOMAIN stake_accounts :
          stake_accounts[k].user # lastCall.user

\* C10: stake_tokens does not depend on the policy record: while
\* ProgramState does not exist, a stake whose record fits the allocated
\* space succeeds and leaves an active record, ProgramState still absent.
C10_StakeWithoutPolicy ==
    [][\A user \in Users, amount \in Amounts, content_id \in ContentIds,
         content_type \in ContentTypes :
          (~Initialized
             /\ StakeSerializedLen(content_id, content_type)
                   <= StakeAccountSpace
             /\ stake_tokens(user, amount, content_id, content_type))
          => /\ lastCall'.result = "Ok"
             /\ \E k \in DOMAIN stake_accounts' :
                   /\ stake_accounts'[k].user = user
                   /\ stake_accounts'[k].is_active
             /\ ProgramStatePda \notin DOMAIN program_state']_vars

C10_Witness ==
    /\ ~Initialized
    /\ lastCall.op = "stake_tokens"
    /\ lastCall.result = "Ok"
    /\ \E k \in DOMAIN stake_accounts : stake_accounts[k].is_active

====
